---- MODULE Spec2Model ----
(***************************************************************************)
(* JByteEdit: the constant-pool string editor of src/App.tsx.              *)
(*                                                                         *)
(* Bytes are naturals 0..255, a Uint8Array is a sequence of bytes, a       *)
(* JavaScript string is a sequence of UTF-16 code units (naturals).        *)
(* String literals of the source are written as tuples of code units, with *)
(* the literal in the comment beside them.                                 *)
(***************************************************************************)
EXTENDS Integers, Sequences, FiniteSets, TLC

\* ------------------------------------------------------------------------
\* Constants of the class-file format (src/App.tsx:428-444)
\* ------------------------------------------------------------------------
CONSTANT_Utf8 == 1
CONSTANT_Integer == 3
CONSTANT_Float == 4
CONSTANT_Long == 5
CONSTANT_Double == 6
CONSTANT_Class == 7
CONSTANT_String == 8
CONSTANT_Fieldref == 9
CONSTANT_Methodref == 10
CONSTANT_InterfaceMethodref == 11
CONSTANT_NameAndType == 12
CONSTANT_MethodHandle == 15
CONSTANT_MethodType == 16
CONSTANT_Dynamic == 17
CONSTANT_InvokeDynamic == 18
CONSTANT_Module == 19
CONSTANT_Package == 20

\* 0xCAFEBABE as the four bytes getUint32(0) reads, big-endian.
\* The magic with its last byte mistyped.
MAGIC_Mistyped == <<202, 254, 186, 191>>

MAGIC == <<202, 254, 186, 190>>

\* ------------------------------------------------------------------------
\* String literals of the source
\* ------------------------------------------------------------------------
S_Ljava == <<76, 106, 97, 118, 97, 47>>                         \* 'Ljava/'
S_ParenV == <<40, 41, 86>>                                      \* '()V'
S_Exception == <<69, 120, 99, 101, 112, 116, 105, 111, 110>>    \* 'Exception'
S_METAINF == <<77, 69, 84, 65, 45, 73, 78, 70, 47>>             \* 'META-INF/'
S_str == <<115, 116, 114, 95>>                                  \* 'str_'
S_Eq == <<32, 61, 32, 34>>                                      \* ' = "'
S_Bar == <<32, 124, 32, 34>>                                    \* ' | "'
S_QuoteNl == <<34, 10>>                                         \* '"\n'
S_BsU == <<92, 117>>                                            \* '\\u'
S_dotClass == <<46, 99, 108, 97, 115, 115>>                     \* '.class'
\* '# Translation File: '
S_HdrFile == <<35, 32, 84, 114, 97, 110, 115, 108, 97, 116, 105, 111, 110, 32, 70, 105, 108, 101, 58, 32>>
\* '# Only edit text inside quotes "..."\n'
S_HdrEdit == <<35, 32, 79, 110, 108, 121, 32, 101, 100, 105, 116, 32, 116, 101, 120, 116, 32, 105, 110, 115, 105, 100, 101, 32, 113, 117, 111, 116, 101, 115, 32, 34, 46, 46, 46, 34, 10>>
\* '# Format: str_ID = "Value"\n\n'
S_HdrFormat == <<35, 32, 70, 111, 114, 109, 97, 116, 58, 32, 115, 116, 114, 95, 73, 68, 32, 61, 32, 34, 86, 97, 108, 117, 101, 34, 10, 10>>
\* '# RAW CONSTANT POOL (REFERENCE ONLY)\n'
S_RefHdr1 == <<35, 32, 82, 65, 87, 32, 67, 79, 78, 83, 84, 65, 78, 84, 32, 80, 79, 79, 76, 32, 40, 82, 69, 70, 69, 82, 69, 78, 67, 69, 32, 79, 78, 76, 89, 41, 10>>
\* '# ID    | Value (UTF-8)\n'
S_RefHdr2 == <<35, 32, 73, 68, 32, 32, 32, 32, 124, 32, 86, 97, 108, 117, 101, 32, 40, 85, 84, 70, 45, 56, 41, 10>>
\* '# ------|--------------------------\n'
S_RefHdr3 == <<35, 32, 45, 45, 45, 45, 45, 45, 124, 45, 45, 45, 45, 45, 45, 45, 45, 45, 45, 45, 45, 45, 45, 45, 45, 45, 45, 45, 45, 45, 45, 45, 45, 45, 45, 10>>
\* '# ERROR: Not a valid Java Class File (Missing Magic Header)'
S_ErrMagic == <<35, 32, 69, 82, 82, 79, 82, 58, 32, 78, 111, 116, 32, 97, 32, 118, 97, 108, 105, 100, 32, 74, 97, 118, 97, 32, 67, 108, 97, 115, 115, 32, 70, 105, 108, 101, 32, 40, 77, 105, 115, 115, 105, 110, 103, 32, 77, 97, 103, 105, 99, 32, 72, 101, 97, 100, 101, 114, 41>>
\* '# ERROR: Unknown Constant Pool Tag '
S_ErrTagA == <<35, 32, 69, 82, 82, 79, 82, 58, 32, 85, 110, 107, 110, 111, 119, 110, 32, 67, 111, 110, 115, 116, 97, 110, 116, 32, 80, 111, 111, 108, 32, 84, 97, 103, 32>>
\* ' at offset '
S_ErrTagB == <<32, 97, 116, 32, 111, 102, 102, 115, 101, 116, 32>>
\* '# Invalid Class File'
S_RefInvalid == <<35, 32, 73, 110, 118, 97, 108, 105, 100, 32, 67, 108, 97, 115, 115, 32, 70, 105, 108, 101>>
\* '# Select a file...'
S_SelectFile == <<35, 32, 83, 101, 108, 101, 99, 116, 32, 97, 32, 102, 105, 108, 101, 46, 46, 46>>
\* '# Translated output will appear here...'
S_Translated == <<35, 32, 84, 114, 97, 110, 115, 108, 97, 116, 101, 100, 32, 111, 117, 116, 112, 117, 116, 32, 119, 105, 108, 108, 32, 97, 112, 112, 101, 97, 114, 32, 104, 101, 114, 101, 46, 46, 46>>
\* '# Not a class file.'
S_NotClass == <<35, 32, 78, 111, 116, 32, 97, 32, 99, 108, 97, 115, 115, 32, 102, 105, 108, 101, 46>>
\* '# Select a class file to edit.'
S_SelectClass == <<35, 32, 83, 101, 108, 101, 99, 116, 32, 97, 32, 99, 108, 97, 115, 115, 32, 102, 105, 108, 101, 32, 116, 111, 32, 101, 100, 105, 116, 46>>
\* 'Invalid Magic Header'
S_AsmMagic == <<73, 110, 118, 97, 108, 105, 100, 32, 77, 97, 103, 105, 99, 32, 72, 101, 97, 100, 101, 114>>
\* 'Unknown Tag '
S_AsmTagA == <<85, 110, 107, 110, 111, 119, 110, 32, 84, 97, 103, 32>>
\* ' during assembly'
S_AsmTagB == <<32, 100, 117, 114, 105, 110, 103, 32, 97, 115, 115, 101, 109, 98, 108, 121>>

\* ------------------------------------------------------------------------
\* Sequences
\* ------------------------------------------------------------------------
Min(S) == CHOOSE x \in S : \A y \in S : x <= y
Max(S) == CHOOSE x \in S : \A y \in S : x >= y

\* String.prototype.startsWith / includes / endsWith
StartsWith(t, p) == Len(t) >= Len(p) /\ SubSeq(t, 1, Len(p)) = p
Includes(t, p) == \E i \in 1..(Len(t) - Len(p) + 1) : SubSeq(t, i, i + Len(p) - 1) = p
EndsWith(t, p) == Len(t) >= Len(p) /\ SubSeq(t, Len(t) - Len(p) + 1, Len(t)) = p

\* Array.prototype.join(''): the concatenation f[lo] \o ... \o f[hi], split
\* in halves so that its depth is logarithmic in the length.
RECURSIVE Join(_, _, _)
Join(f, lo, hi) ==
    IF lo > hi THEN <<>>
    ELSE IF lo = hi THEN f[lo]
    ELSE LET mid == (lo + hi) \div 2
         IN  Join(f, lo, mid) \o Join(f, mid + 1, hi)

\* Number.prototype.toString() of a natural, in decimal.
RECURSIVE NumToString(_)
NumToString(n) ==
    IF n < 10 THEN <<48 + n>> ELSE NumToString(n \div 10) \o <<48 + (n % 10)>>

\* String.prototype.padStart(width, ' ')
PadStart(t, width) ==
    [i \in 1..(IF width > Len(t) THEN width - Len(t) ELSE 0) |-> 32] \o t

\* ------------------------------------------------------------------------
\* TextDecoder('utf-8').decode and TextEncoder.encode
\* ------------------------------------------------------------------------
\* The UTF-8 decoder (not fatal): the code points of a byte sequence. cp,
\* needed, seen, lower and upper are the decoder's state; an ill-formed byte
\* yields U+FFFD and, inside a sequence, is read again as a first byte.
RECURSIVE Utf8Scan(_, _, _, _, _, _, _)
Utf8Scan(b, i, cp, needed, seen, lower, upper) ==
    IF i > Len(b) THEN (IF needed # 0 THEN <<65533>> ELSE <<>>)
    ELSE LET byte == b[i] IN
      IF needed = 0 THEN
        IF byte <= 127 THEN <<byte>> \o Utf8Scan(b, i + 1, 0, 0, 0, 128, 191)
        ELSE IF byte >= 194 /\ byte <= 223
          THEN Utf8Scan(b, i + 1, byte % 32, 1, 0, 128, 191)
        ELSE IF byte >= 224 /\ byte <= 239
          THEN Utf8Scan(b, i + 1, byte % 16, 2, 0,
                        IF byte = 224 THEN 160 ELSE 128,
                        IF byte = 237 THEN 159 ELSE 191)
        ELSE IF byte >= 240 /\ byte <= 244
          THEN Utf8Scan(b, i + 1, byte % 8, 3, 0,
                        IF byte = 240 THEN 144 ELSE 128,
                        IF byte = 244 THEN 143 ELSE 191)
        ELSE <<65533>> \o Utf8Scan(b, i + 1, 0, 0, 0, 128, 191)
      ELSE IF byte < lower \/ byte > upper
        THEN <<65533>> \o Utf8Scan(b, i, 0, 0, 0, 128, 191)
      ELSE IF seen + 1 = needed
        THEN <<cp * 64 + (byte % 64)>> \o Utf8Scan(b, i + 1, 0, 0, 0, 128, 191)
      ELSE Utf8Scan(b, i + 1, cp * 64 + (byte % 64), needed, seen + 1, 128, 191)

\* A code point as UTF-16 code units.
Utf16Of(cp) ==
    IF cp >= 65536
    THEN <<55296 + ((cp - 65536) \div 1024), 56320 + ((cp - 65536) % 1024)>>
    ELSE <<cp>>

\* decoder.decode(bytes): ignoreBOM is false, so a leading U+FEFF is dropped.
Decode(b) ==
    LET cps == Utf8Scan(b, 1, 0, 0, 0, 128, 191)
        kept == IF Len(cps) > 0 /\ cps[1] = 65279 THEN Tail(cps) ELSE cps
    IN  Join([i \in 1..Len(kept) |-> Utf16Of(kept[i])], 1, Len(kept))

IsHigh(u) == u >= 55296 /\ u <= 56319
IsLow(u) == u >= 56320 /\ u <= 57343

\* The UTF-8 bytes of a scalar value.
Utf8Of(cp) ==
    IF cp < 128 THEN <<cp>>
    ELSE IF cp < 2048 THEN <<192 + (cp \div 64), 128 + (cp % 64)>>
    ELSE IF cp < 65536
      THEN <<224 + (cp \div 4096), 128 + ((cp \div 64) % 64), 128 + (cp % 64)>>
    ELSE <<240 + (cp \div 262144), 128 + ((cp \div 4096) % 64),
           128 + ((cp \div 64) % 64), 128 + (cp % 64)>>

\* An encoder that writes one byte for every code unit.
Encode_OneByte(t) == [i \in 1..Len(t) |-> t[i] % 256]

\* encoder.encode(text): a surrogate pair is one scalar value, a lone
\* surrogate is encoded as U+FFFD.
Encode(t) ==
    LET n == Len(t)
        bytesAt(i) ==
          IF IsHigh(t[i])
          THEN IF i < n /\ IsLow(t[i + 1])
               THEN Utf8Of(65536 + (t[i] - 55296) * 1024 + (t[i + 1] - 56320))
               ELSE Utf8Of(65533)
          ELSE IF IsLow(t[i])
          THEN IF i > 1 /\ IsHigh(t[i - 1]) THEN <<>> ELSE Utf8Of(65533)
          ELSE Utf8Of(t[i])
    IN  Join([i \in 1..n |-> bytesAt(i)], 1, n)

\* ------------------------------------------------------------------------
\* The eligibility filter and the display escape
\* ------------------------------------------------------------------------
\* \p{L} on the code points the inputs of this model are built from: Basic
\* Latin, Latin-1 Supplement and the letter blocks up to U+02C1. Every other
\* code point the inputs hold (U+2028, U+FEFF, U+FFFD, U+1F600, surrogates)
\* is no letter.
IsLetter(cp) ==
    \/ cp >= 65 /\ cp <= 90
    \/ cp >= 97 /\ cp <= 122
    \/ cp \in {170, 181, 186}
    \/ cp >= 192 /\ cp <= 214
    \/ cp >= 216 /\ cp <= 246
    \/ cp >= 248 /\ cp <= 705

\* \d
IsDigit(c) == c >= 48 /\ c <= 57

\* /[\p{L}\d]/u.test(text): the u flag reads a surrogate pair as one code point.
HasLetterOrDigit(t) ==
    \E i \in 1..Len(t) :
      LET cp == IF IsHigh(t[i]) /\ i < Len(t) /\ IsLow(t[i + 1])
                THEN 65536 + (t[i] - 55296) * 1024 + (t[i + 1] - 56320)
                ELSE t[i]
      IN  IsLetter(cp) \/ IsDigit(cp)

\* The filter without its Ljava/ rule.
isValidString_KeepsLjava(text) ==
    IF Len(text) < 2 THEN FALSE
    ELSE IF StartsWith(text, <<40>>) /\ Includes(text, <<41>>) THEN FALSE
    ELSE IF Includes(text, S_ParenV) THEN FALSE
    ELSE IF Includes(text, S_Exception) THEN FALSE
    ELSE IF StartsWith(text, S_METAINF) THEN FALSE
    ELSE HasLetterOrDigit(text)

isValidString(text) ==
    IF Len(text) < 2 THEN FALSE
    ELSE IF StartsWith(text, S_Ljava) THEN FALSE
    ELSE IF StartsWith(text, <<40>>) /\ Includes(text, <<41>>) THEN FALSE
    ELSE IF Includes(text, S_ParenV) THEN FALSE
    ELSE IF Includes(text, S_Exception) THEN FALSE
    ELSE IF StartsWith(text, S_METAINF) THEN FALSE
    ELSE HasLetterOrDigit(text)

\* One digit of Number.prototype.toString(16).
HexChar(d) == IF d < 10 THEN 48 + d ELSE 87 + d

\* The hex digits of the code with no padding.
Hex4_Unpadded(code) ==
    IF code < 16 THEN <<HexChar(code)>> ELSE <<HexChar(code \div 16), HexChar(code % 16)>>

\* code.toString(16).padStart(4, '0') for code < 32
Hex4(code) == <<48, 48, HexChar(code \div 16), HexChar(code % 16)>>

\* The escape that leaves a quote as it is.
EscapeChar_BareQuote(char) ==
    IF char = 92 THEN <<92, 92>>
    ELSE IF char < 32 THEN S_BsU \o Hex4(char)
    ELSE <<char>>

\* The escape of one code unit in toJavaUnicode.
EscapeChar(char) ==
    IF char = 34 THEN <<92, 34>>
    ELSE IF char = 92 THEN <<92, 92>>
    ELSE IF char < 32 THEN S_BsU \o Hex4(char)
    ELSE <<char>>

toJavaUnicode(str) ==
    Join([i \in 1..Len(str) |-> EscapeChar(str[i])], 1, Len(str))

\* ------------------------------------------------------------------------
\* JSON.parse of a quoted string: fromJavaUnicode
\* ------------------------------------------------------------------------
\* The number of backslashes that stand directly before index i, counted
\* back no further than index from.
BackslashRun(t, from, i) ==
    IF i <= from \/ t[i - 1] # 92 THEN 0
    ELSE (i - 1) - Max({from - 1} \cup {j \in from..(i - 1) : t[j] # 92})

\* Index i is taken by the escape that the backslash before it opens.
Escaped(t, from, i) == BackslashRun(t, from, i) % 2 = 1

HexVal(c) ==
    IF c >= 48 /\ c <= 57 THEN c - 48
    ELSE IF c >= 97 /\ c <= 102 THEN c - 87
    ELSE IF c >= 65 /\ c <= 70 THEN c - 55
    ELSE 0 - 1

\* The escape letters of a JSON string other than u, with what they denote.
JsonSimple(c) ==
    IF c = 34 THEN 34 ELSE IF c = 92 THEN 92 ELSE IF c = 47 THEN 47
    ELSE IF c = 98 THEN 8 ELSE IF c = 102 THEN 12 ELSE IF c = 110 THEN 10
    ELSE IF c = 114 THEN 13 ELSE IF c = 116 THEN 9 ELSE 0 - 1

\* A backslash at i that opens an escape.
OpensEscape(t, i) == t[i] = 92 /\ ~Escaped(t, 1, i)

\* The escape opened at i is \uXXXX with four hex digits.
IsUnicodeEscape(t, i) ==
    /\ i + 5 <= Len(t)
    /\ t[i + 1] = 117
    /\ \A k \in 2..5 : HexVal(t[i + k]) >= 0

\* JSON.parse(`"${str}"`) throws: a raw quote ends the string early, a raw
\* control character, a backslash with no valid escape after it.
JsonMalformed(t) ==
    \E i \in 1..Len(t) :
      \/ t[i] < 32
      \/ t[i] = 34 /\ ~Escaped(t, 1, i)
      \/ /\ OpensEscape(t, i)
         /\ \/ i = Len(t)
            \/ /\ JsonSimple(t[i + 1]) < 0
               /\ ~IsUnicodeEscape(t, i)

\* Index i is one of the four hex digits of a \uXXXX escape.
InUnicodeEscape(t, i) ==
    /\ HexVal(t[i]) >= 0
    /\ \E k \in 2..5 :
         /\ i - k >= 1
         /\ t[i - k] = 92
         /\ OpensEscape(t, i - k)
         /\ t[i - k + 1] = 117

\* What index i of a well-formed string contributes to the parsed value.
JsonUnit(t, i) ==
    IF OpensEscape(t, i)
    THEN IF t[i + 1] = 117
         THEN <<HexVal(t[i + 2]) * 4096 + HexVal(t[i + 3]) * 256
                + HexVal(t[i + 4]) * 16 + HexVal(t[i + 5])>>
         ELSE <<JsonSimple(t[i + 1])>>
    ELSE IF Escaped(t, 1, i) \/ InUnicodeEscape(t, i) THEN <<>>
    ELSE <<t[i]>>

fromJavaUnicode(str) ==
    IF JsonMalformed(str) THEN str
    ELSE Join([i \in 1..Len(str) |-> JsonUnit(str, i)], 1, Len(str))

\* ------------------------------------------------------------------------
\* split('\n') and the two line patterns
\* ------------------------------------------------------------------------
\* referenceText.split('\n')
Split(t) ==
    LET nls == {i \in 1..Len(t) : t[i] = 10}
        m == Cardinality(nls)
        nl(k) == CHOOSE x \in nls : Cardinality({y \in nls : y < x}) = k - 1
    IN  [k \in 1..(m + 1) |->
           SubSeq(t, IF k = 1 THEN 1 ELSE nl(k - 1) + 1,
                     IF k = m + 1 THEN Len(t) ELSE nl(k) - 1)]

\* \s
IsSpace(c) ==
    \/ c \in {9, 10, 11, 12, 13, 32, 160, 5760, 8232, 8233, 8239, 8287, 12288, 65279}
    \/ c >= 8192 /\ c <= 8202

\* What . does not match.
IsLineTerminator(c) == c \in {10, 13, 8232, 8233}

\* The first index at or after i that holds no \s (Len + 1 when none): \s*
SkipSpace(line, i) ==
    Min({j \in i..Len(line) : ~IsSpace(line[j])} \cup {Len(line) + 1})

\* The first index at or after i that holds no digit: \d*
SkipDigits(line, i) ==
    Min({j \in i..Len(line) : ~IsDigit(line[j])} \cup {Len(line) + 1})

\* "((?:[^"\\]|\\.)*)" with the opening quote at v - 1: the index of the
\* closing quote, or 0 when the pattern cannot match there. The closing
\* quote is the first quote no backslash escapes; \\. fails on a backslash
\* that stands before a line terminator.
ValueEnd(line, v) ==
    LET quotes == {q \in v..Len(line) : line[q] = 34 /\ ~Escaped(line, v, q)}
    IN  IF quotes = {} THEN 0
        ELSE LET q == Min(quotes)
             IN  IF \E r \in v..(q - 1) :
                       IsLineTerminator(line[r]) /\ Escaped(line, v, r)
                 THEN 0 ELSE q

\* The pattern tried at index p, where 'str_' stands: sep is the separator
\* (| or =), padded tells whether \s* stands between 'str_' and the digits.
MatchAt(line, p, sep, padded) ==
    LET d0 == IF padded THEN SkipSpace(line, p + 4) ELSE p + 4
        d1 == SkipDigits(line, d0)
        s0 == SkipSpace(line, d1)
        q0 == SkipSpace(line, s0 + 1)
        q1 == IF d1 > d0 /\ s0 <= Len(line) /\ line[s0] = sep
                 /\ q0 <= Len(line) /\ line[q0] = 34
              THEN ValueEnd(line, q0 + 1) ELSE 0
    IN  IF q1 = 0 THEN [ok |-> FALSE, id |-> <<>>, value |-> <<>>]
        ELSE [ok |-> TRUE, id |-> SubSeq(line, d0, d1 - 1),
              value |-> SubSeq(line, q0 + 1, q1 - 1)]

\* line.match(regex): the leftmost index where the pattern matches.
Match(line, sep, padded) ==
    LET starts == {p \in 1..(Len(line) - 3) :
                     /\ line[p] = 115 /\ line[p + 1] = 116
                     /\ line[p + 2] = 114 /\ line[p + 3] = 95
                     /\ MatchAt(line, p, sep, padded).ok}
    IN  IF starts = {} THEN [ok |-> FALSE, id |-> <<>>, value |-> <<>>]
        ELSE MatchAt(line, Min(starts), sep, padded)

\* The reference pattern without the space it allows before the digits.
MatchReference_Unpadded(line) == Match(line, 124, FALSE)

\* /str_\s*(\d+)\s*\|\s*"((?:[^"\\]|\\.)*)"/
MatchReference(line) == Match(line, 124, TRUE)

\* /str_(\d+)\s*=\s*"((?:[^"\\]|\\.)*)"/
MatchConfig(line) == Match(line, 61, FALSE)

\* parseInt(digits, 10)
RECURSIVE ParseInt(_)
ParseInt(d) ==
    IF Len(d) = 0 THEN 0
    ELSE ParseInt(SubSeq(d, 1, Len(d) - 1)) * 10 + (d[Len(d)] - 48)

\* The three header lines and the blank line of the config text.
ConfigHeader(fileName) == S_HdrFile \o fileName \o <<10>> \o S_HdrEdit \o S_HdrFormat

convertReferenceToConfig(referenceText, fileName) ==
    LET lines == Split(referenceText)
        emit(k) == LET m == MatchReference(lines[k])
                   IN  IF m.ok THEN S_str \o m.id \o S_Eq \o m.value \o S_QuoteNl
                       ELSE <<>>
    IN  ConfigHeader(fileName) \o Join([k \in 1..Len(lines) |-> emit(k)], 1, Len(lines))

\* The Map that assembleClassFile parses from the editor text: a later line
\* with the same id replaces an earlier one.
Replacements(editorText) ==
    LET lines == Split(editorText)
        ms == [k \in 1..Len(lines) |-> MatchConfig(lines[k])]
        hits == {k \in 1..Len(lines) : ms[k].ok}
        idOf == [k \in hits |-> ParseInt(ms[k].id)]
    IN  [n \in {idOf[k] : k \in hits} |->
           fromJavaUnicode(ms[Max({k \in hits : idOf[k] = n})].value)]

\* ------------------------------------------------------------------------
\* Reading and writing bytes
\* ------------------------------------------------------------------------
\* view.getUint16(offset), offset counted from 0.
getUint16(b, offset) == b[offset + 1] * 256 + b[offset + 2]

\* content.slice(from, to): the bytes at offsets from..to-1 that exist.
Slice(b, from, to) ==
    IF from >= Len(b) THEN <<>> ELSE SubSeq(b, from + 1, IF to < Len(b) THEN to ELSE Len(b))

\* A writeU1 that writes nothing.
writeU1_Dropped(v) == <<>>

writeU1(v) == <<v % 256>>
writeU2(v) == <<(v \div 256) % 256, v % 256>>

\* The payload size of the tags the switch statements know, 0 for any other.
FixedSize(tag) ==
    IF tag \in {CONSTANT_Integer, CONSTANT_Float, CONSTANT_Fieldref,
                CONSTANT_Methodref, CONSTANT_InterfaceMethodref,
                CONSTANT_NameAndType, CONSTANT_Dynamic, CONSTANT_InvokeDynamic}
    THEN 4
    ELSE IF tag \in {CONSTANT_Long, CONSTANT_Double} THEN 8
    ELSE IF tag \in {CONSTANT_Class, CONSTANT_String, CONSTANT_MethodType,
                     CONSTANT_Module, CONSTANT_Package}
    THEN 2
    ELSE IF tag = CONSTANT_MethodHandle THEN 3
    ELSE 0

\* A walk in which a Long or Double takes one slot as any entry does.
SlotStep_One(tag) == 1

\* The i++ of the Long and Double cases, added to the loop's own.
SlotStep(tag) == IF tag \in {CONSTANT_Long, CONSTANT_Double} THEN 2 ELSE 1

\* What a call yields. kind is "return" (a value was returned), "Error" (the
\* call threw new Error(message)) or "RangeError" (a DataView read outside
\* the buffer threw). ids lists, for each id the walk assigned, the pool
\* index and the offset of the entry it went to; writes lists the entries
\* assembly rewrote. Both are records of the walk, not values of the code.
Returned(text, ids) ==
    [kind |-> "return", text |-> text, bytes |-> <<>>, message |-> <<>>,
     ids |-> ids, writes |-> <<>>, stop |-> <<>>]
Assembled(bytes, ids, writes) ==
    [kind |-> "return", text |-> <<>>, bytes |-> bytes, message |-> <<>>,
     ids |-> ids, writes |-> writes, stop |-> <<>>]
Thrown(message, ids) ==
    [kind |-> "Error", text |-> <<>>, bytes |-> <<>>, message |-> message,
     ids |-> ids, writes |-> <<>>, stop |-> <<>>]
RangeError(ids) ==
    [kind |-> "RangeError", text |-> <<>>, bytes |-> <<>>, message |-> <<>>,
     ids |-> ids, writes |-> <<>>, stop |-> <<>>]
NoResult ==
    [kind |-> "none", text |-> <<>>, bytes |-> <<>>, message |-> <<>>,
     ids |-> <<>>, writes |-> <<>>, stop |-> <<>>]

\* The result of a walk whose loop ended, i < cpCount being false, with the
\* pool index i and the read offset it ended at: a record of the walk, as
\* ids and writes are.
Finished(r, i, offset) ==
    [r EXCEPT !.stop = <<[index |-> i, offset |-> offset]>>]

\* ------------------------------------------------------------------------
\* extractStringsFromClass
\* ------------------------------------------------------------------------
RECURSIVE ExtractLoop(_, _, _, _, _, _, _)
ExtractLoop(content, cpCount, i, offset, stringIndex, output, ids) ==
    IF i >= cpCount THEN Finished(Returned(output, ids), i, offset)
    ELSE IF offset >= Len(content) THEN RangeError(ids)
    ELSE LET tag == content[offset + 1] IN
      IF tag = CONSTANT_Utf8 THEN
        IF offset + 3 > Len(content) THEN RangeError(ids)
        ELSE LET length == getUint16(content, offset + 1)
                 bytes == Slice(content, offset + 3, offset + 3 + length)
                 text == Decode(bytes)
             IN  IF isValidString(text)
                 THEN ExtractLoop(content, cpCount, i + 1, offset + 3 + length,
                        stringIndex + 1,
                        output \o S_str \o NumToString(stringIndex) \o S_Eq
                               \o toJavaUnicode(text) \o S_QuoteNl,
                        Append(ids, [id |-> stringIndex, index |-> i, at |-> offset]))
                 ELSE ExtractLoop(content, cpCount, i + 1, offset + 3 + length,
                        stringIndex, output, ids)
      ELSE IF FixedSize(tag) > 0
        THEN ExtractLoop(content, cpCount, i + SlotStep(tag),
                         offset + 1 + FixedSize(tag), stringIndex, output, ids)
      ELSE Returned(S_ErrTagA \o NumToString(tag) \o S_ErrTagB
                      \o NumToString(offset + 1), ids)

extractStringsFromClass(content, fileName) ==
    IF Len(content) < 4 THEN RangeError(<<>>)
    ELSE IF SubSeq(content, 1, 4) # MAGIC THEN Returned(S_ErrMagic, <<>>)
    ELSE IF Len(content) < 10 THEN RangeError(<<>>)
    ELSE ExtractLoop(content, getUint16(content, 8), 1, 10, 0,
                     ConfigHeader(fileName), <<>>)

\* ------------------------------------------------------------------------
\* extractReadableStrings
\* ------------------------------------------------------------------------
\* The switch of this walk has no default case: after a tag it does not
\* know, the loop goes on at the next byte.
RECURSIVE ReadableLoop(_, _, _, _, _, _, _)
ReadableLoop(content, cpCount, i, offset, stringIndex, output, ids) ==
    IF i >= cpCount THEN Finished(Returned(output, ids), i, offset)
    ELSE IF offset >= Len(content) THEN RangeError(ids)
    ELSE LET tag == content[offset + 1] IN
      IF tag = CONSTANT_Utf8 THEN
        IF offset + 3 > Len(content) THEN RangeError(ids)
        ELSE LET length == getUint16(content, offset + 1)
                 text == Decode(Slice(content, offset + 3, offset + 3 + length))
             IN  IF isValidString(text)
                 THEN ReadableLoop(content, cpCount, i + 1, offset + 3 + length,
                        stringIndex + 1,
                        output \o S_str \o PadStart(NumToString(stringIndex), 5)
                               \o S_Bar \o toJavaUnicode(text) \o S_QuoteNl,
                        Append(ids, [id |-> stringIndex, index |-> i, at |-> offset]))
                 ELSE ReadableLoop(content, cpCount, i + 1, offset + 3 + length,
                        stringIndex, output, ids)
      ELSE ReadableLoop(content, cpCount, i + SlotStep(tag),
                        offset + 1 + FixedSize(tag), stringIndex, output, ids)

\* The reference walk with its counter started at 1.
extractReadableStrings_FromOne(content) ==
    IF Len(content) < 4 THEN RangeError(<<>>)
    ELSE IF SubSeq(content, 1, 4) # MAGIC THEN Returned(S_RefInvalid, <<>>)
    ELSE IF Len(content) < 10 THEN RangeError(<<>>)
    ELSE ReadableLoop(content, getUint16(content, 8), 1, 10, 1,
                      S_RefHdr1 \o S_RefHdr2 \o S_RefHdr3, <<>>)

extractReadableStrings(content) ==
    IF Len(content) < 4 THEN RangeError(<<>>)
    ELSE IF SubSeq(content, 1, 4) # MAGIC THEN Returned(S_RefInvalid, <<>>)
    ELSE IF Len(content) < 10 THEN RangeError(<<>>)
    ELSE ReadableLoop(content, getUint16(content, 8), 1, 10, 0,
                      S_RefHdr1 \o S_RefHdr2 \o S_RefHdr3, <<>>)

\* ------------------------------------------------------------------------
\* assembleClassFile
\* ------------------------------------------------------------------------
RECURSIVE AssembleLoop(_, _, _, _, _, _, _, _, _)
AssembleLoop(original, replacements, cpCount, i, offset, stringIndex, newBytes, ids, writes) ==
    IF i >= cpCount
    THEN Finished(Assembled(newBytes \o Slice(original, offset, Len(original)), ids, writes),
                  i, offset)
    ELSE IF offset >= Len(original) THEN RangeError(ids)
    ELSE LET tag == original[offset + 1] IN
      IF tag = CONSTANT_Utf8 THEN
        IF offset + 3 > Len(original) THEN RangeError(ids)
        ELSE LET length == getUint16(original, offset + 1)
                 rawBytes == Slice(original, offset + 3, offset + 3 + length)
                 currentText == Decode(rawBytes)
             IN  IF isValidString(currentText)
                 THEN IF stringIndex \in DOMAIN replacements
                      THEN LET newTextBytes == Encode(replacements[stringIndex])
                           IN  AssembleLoop(original, replacements, cpCount, i + 1,
                                 offset + 3 + length, stringIndex + 1,
                                 newBytes \o writeU1(tag) \o writeU2(Len(newTextBytes))
                                          \o newTextBytes,
                                 Append(ids, [id |-> stringIndex, index |-> i, at |-> offset]),
                                 Append(writes, [id |-> stringIndex, at |-> offset,
                                                 outAt |-> Len(newBytes),
                                                 count |-> Len(newTextBytes)]))
                      ELSE AssembleLoop(original, replacements, cpCount, i + 1,
                             offset + 3 + length, stringIndex + 1,
                             newBytes \o writeU1(tag) \o writeU2(Len(rawBytes)) \o rawBytes,
                             Append(ids, [id |-> stringIndex, index |-> i, at |-> offset]),
                             writes)
                 ELSE AssembleLoop(original, replacements, cpCount, i + 1,
                        offset + 3 + length, stringIndex,
                        newBytes \o writeU1(tag) \o writeU2(Len(rawBytes)) \o rawBytes,
                        ids, writes)
      ELSE IF FixedSize(tag) > 0
        THEN AssembleLoop(original, replacements, cpCount, i + SlotStep(tag),
               offset + 1 + FixedSize(tag), stringIndex,
               newBytes \o writeU1(tag)
                        \o Slice(original, offset + 1, offset + 1 + FixedSize(tag)),
               ids, writes)
      ELSE Thrown(S_AsmTagA \o NumToString(tag) \o S_AsmTagB, ids)

assembleClassFile(original, editorText) ==
    IF Len(original) < 4 THEN RangeError(<<>>)
    ELSE IF SubSeq(original, 1, 4) # MAGIC THEN Thrown(S_AsmMagic, <<>>)
    ELSE IF Len(original) < 10 THEN RangeError(<<>>)
    ELSE AssembleLoop(original, Replacements(editorText), getUint16(original, 8),
                      1, 10, 0,
                      SubSeq(original, 1, 8) \o writeU2(getUint16(original, 8)),
                      <<>>, <<>>)

\* ------------------------------------------------------------------------
\* The files and the texts the user supplies
\* ------------------------------------------------------------------------
\* The largest number of pool entries in the pools built from CoreEntries.
MaxEntries == 2

\* The number of code units of the long replacement beyond 65536.
LongExtra == 0

Utf8Entry(payload) == <<1>> \o writeU2(Len(payload)) \o payload
FixedEntry(tag) == <<tag>> \o [k \in 1..FixedSize(tag) |-> k]

P_OK == <<79, 75>>                                              \* OK
P_Quoted == <<97, 34, 92, 9>>                                   \* a"\<TAB>
P_ModifiedNul == <<192, 128, 97, 98>>                           \* C0 80 (Java's NUL) ab
P_Descriptor == <<40, 41, 86>>                                  \* ()V
P_Hello == <<72, 101, 108, 108, 111, 32, 87, 111, 114, 108, 100>>   \* Hello World
\* Ljava/lang/String;
P_LjavaString == <<76, 106, 97, 118, 97, 47, 108, 97, 110, 103, 47, 83, 116, 114, 105, 110, 103, 59>>
P_Method == <<40, 73, 41, 86>>                                  \* (I)V
P_OpenParen == <<40, 97, 98>>                                   \* (ab
P_IOException == <<73, 79, 69, 120, 99, 101, 112, 116, 105, 111, 110>>  \* IOException
P_MetaInf == <<77, 69, 84, 65, 45, 73, 78, 70, 47, 120>>        \* META-INF/x
P_Single == <<97>>                                              \* a
P_Dashes == <<45, 45>>                                          \* --
P_Digits == <<52, 50>>                                          \* 42
P_Bom == <<239, 187, 191, 104, 105>>                            \* EF BB BF hi
P_Accent == <<195, 169, 33>>                                    \* e-acute !
P_Emoji == <<240, 159, 152, 128>>                               \* U+1F600
P_Surrogates == <<237, 160, 189, 237, 184, 128, 97, 98>>        \* CESU-8 U+1F600, ab
P_StrIn == <<115, 116, 114, 95, 57, 32, 124, 32, 34, 122, 34>>  \* str_9 | "z"

\* The entries the pools of up to MaxEntries entries are built from; tag 2
\* is no tag of the format.
CoreEntries ==
    {Utf8Entry(P_OK), Utf8Entry(P_ModifiedNul), Utf8Entry(P_Descriptor),
     FixedEntry(CONSTANT_Integer), FixedEntry(CONSTANT_Long), <<2>>}

\* Further entries, each tried alone and before an OK entry.
MoreEntries ==
    {Utf8Entry(p) : p \in {P_Quoted, P_Hello, P_LjavaString, P_Method, P_OpenParen,
                           P_IOException, P_MetaInf, P_Single, P_Dashes,
                           P_Digits, P_Bom, P_Accent, P_Emoji, P_Surrogates,
                           P_StrIn, <<>>}}
    \cup {FixedEntry(t) : t \in {CONSTANT_Float, CONSTANT_Double, CONSTANT_Class,
            CONSTANT_String, CONSTANT_Fieldref, CONSTANT_Methodref,
            CONSTANT_InterfaceMethodref, CONSTANT_NameAndType,
            CONSTANT_MethodHandle, CONSTANT_MethodType, CONSTANT_Dynamic,
            CONSTANT_InvokeDynamic, CONSTANT_Module, CONSTANT_Package}}
    \cup {<<0>>, <<13>>, <<14>>, <<21>>, <<255>>}

Pools ==
    UNION {[1..n -> CoreEntries] : n \in 0..MaxEntries}
    \cup {<<e>> : e \in MoreEntries}
    \cup {<<e, Utf8Entry(P_OK)>> : e \in MoreEntries}

\* The bytes after the constant pool: access_flags and what follows.
TailBytes == <<0, 33, 1>>

\* The pool slots the entries take.
RECURSIVE Slots(_)
Slots(pool) ==
    IF pool = <<>> THEN 0 ELSE SlotStep(Head(pool)[1]) + Slots(Tail(pool))

\* A class file: magic, version 0.52, constant_pool_count, the entries, the tail.
HeaderBytes == MAGIC \o <<0, 0, 0, 52>>
Build(pool, tail) ==
    HeaderBytes \o writeU2(1 + Slots(pool))
        \o Join(pool, 1, Len(pool)) \o tail

\* The class file of the scenario: OK and one Integer.
ScenarioContent == Build(<<Utf8Entry(P_OK), FixedEntry(CONSTANT_Integer)>>, <<>>)

\* Buffers that are no class file: too short, a wrong magic, a pool count that
\* declares more entries than there are, a buffer cut inside an entry.
BrokenContents ==
    LET whole == Build(<<Utf8Entry(P_OK), FixedEntry(CONSTANT_Integer)>>, <<0, 33, 1>>)
    IN  {SubSeq(whole, 1, n) : n \in {0, 2, 4, 8, 9, 10, 11, 12, 14, 15, 18, 19}}
        \cup {<<0, 0, 0, 0>> \o SubSeq(whole, 5, Len(whole)),
              <<0, 0, 0, 0, 0, 0, 0, 0, 0, 0, 0, 0>>,
              <<0, 0, 0>>,
              <<0, 0, 0, 0, 0>>,
              HeaderBytes \o writeU2(3) \o Utf8Entry(P_OK),
              HeaderBytes \o writeU2(4) \o Utf8Entry(P_OK) \o FixedEntry(CONSTANT_Long),
              HeaderBytes \o writeU2(2) \o <<1, 0, 9>> \o P_OK,
              HeaderBytes \o writeU2(0) \o Utf8Entry(P_OK)}

S_AClass == <<65, 46, 99, 108, 97, 115, 115>>                   \* A.class
S_NTxt == <<110, 46, 116, 120, 116>>                            \* n.txt

\* The FileNode the user loads.
Files ==
    {[name |-> S_AClass, content |-> c] :
        c \in {Build(p, TailBytes) : p \in Pools}
              \cup {Build(<<>>, <<>>), ScenarioContent}
              \cup BrokenContents}
    \cup {[name |-> S_NTxt, content |-> <<104, 105, 10>>]}

\* A reference text the user types: a header line, the line of the
\* conversion example, a line with no pipe, a line with tight spacing and an
\* escaped quote, a line whose value holds a backslash before a carriage
\* return.
ReferenceEdit ==
    \* # ID    | Value (UTF-8)
    <<35, 32, 73, 68, 32, 32, 32, 32, 124, 32, 86, 97, 108, 117, 101, 32, 40, 85, 84, 70, 45, 56, 41, 10>>
    \* str_    3 | "Cancel"
    \o <<115, 116, 114, 95, 32, 32, 32, 32, 51, 32, 124, 32, 34, 67, 97, 110, 99, 101, 108, 34, 10>>
    \* str_    1 "NoPipe"
    \o <<115, 116, 114, 95, 32, 32, 32, 32, 49, 32, 34, 78, 111, 80, 105, 112, 101, 34, 10>>
    \* str_1|"a\"b" rest
    \o <<115, 116, 114, 95, 49, 124, 34, 97, 92, 34, 98, 34, 32, 114, 101, 115, 116, 10>>
    \* str_0 | "Z\<CR>"
    \o <<115, 116, 114, 95, 48, 32, 124, 32, 34, 90, 92, 13, 34, 10>>

\* str_    0 | "Hi"
ShortReferenceEdit ==
    <<115, 116, 114, 95, 32, 32, 32, 32, 48, 32, 124, 32, 34, 72, 105, 34>>

\* What the user types into the reference editor.
LeftEdits == {ReferenceEdit, ShortReferenceEdit}

\* A config text that replaces ids 0 and 2 and names an id no file has.
ShortEdit ==
    \* str_0 = "Yes"
    <<115, 116, 114, 95, 48, 32, 61, 32, 34, 89, 101, 115, 34, 10>>
    \* str_2 = "first"
    \o <<115, 116, 114, 95, 50, 32, 61, 32, 34, 102, 105, 114, 115, 116, 34, 10>>
    \* not a line
    \o <<110, 111, 116, 32, 97, 32, 108, 105, 110, 101, 10>>
    \* str_02="é\n\\"
    \o <<115, 116, 114, 95, 48, 50, 61, 34, 92, 117, 48, 48, 101, 57, 92, 110, 92, 92, 34, 10>>
    \* str_9 = "none"
    \o <<115, 116, 114, 95, 57, 32, 61, 32, 34, 110, 111, 110, 101, 34, 10>>

\* A config text whose values hold escapes: the escape of U+FEFF, an escape
\* JSON does not know, a raw tab beside the escape \n, a \u cut short.
EscapeEdit ==
    \* str_0 = "\ufeffHi"
    <<115, 116, 114, 95, 48, 32, 61, 32, 34, 92, 117, 102, 101, 102, 102, 72, 105, 34, 10>>
    \* str_1 = "a\qb"
    \o <<115, 116, 114, 95, 49, 32, 61, 32, 34, 97, 92, 113, 98, 34, 10>>
    \* str_2 = "x<TAB>y\n"
    \o <<115, 116, 114, 95, 50, 32, 61, 32, 34, 120, 9, 121, 92, 110, 34, 10>>
    \* str_3 = "q\u12"
    \o <<115, 116, 114, 95, 51, 32, 61, 32, 34, 113, 92, 117, 49, 50, 34>>

\* str_0 = "aaa...a" with 65536 + LongExtra times a.
LongEdit ==
    <<115, 116, 114, 95, 48, 32, 61, 32, 34>>
    \o [k \in 1..(65536 + LongExtra) |-> 97] \o <<34>>

\* What the user types into the config editor: ShortEdit or EscapeEdit into
\* any file, LongEdit into the scenario's file once it is selected and its
\* reference text is untouched.
RightEdits(selected, left, ref) ==
    {ShortEdit, EscapeEdit}
    \cup (IF selected # <<>> /\ selected[1].content = ScenarioContent
             /\ ref.kind = "return" /\ left = ref.text
          THEN {LongEdit} ELSE {})

\* ------------------------------------------------------------------------
\* The application
\* ------------------------------------------------------------------------
VARIABLES
    file,           \* the FileNode in the file tree
    selectedFile,   \* <<>> (null) or <<the selected FileNode>>
    leftContent,    \* the reference editor's text
    rightContent,   \* the config editor's text
    reference,      \* what extractReadableStrings yielded at the last selection
    source,         \* what decompileClassLocal resolved with
    saved           \* what handleSave's assembly of the present texts yielded

vars == <<file, selectedFile, leftContent, rightContent, reference, source, saved>>

Init ==
    /\ file \in Files
    /\ selectedFile = <<>>
    /\ leftContent = S_SelectFile
    /\ rightContent = S_Translated
    /\ reference = NoResult
    /\ source = NoResult
    /\ saved = NoResult

\* handleNodeSelect(node). A RangeError of extractReadableStrings leaves the
\* handler after setSelectedFile, with both editors as they were.
handleNodeSelect ==
    /\ selectedFile' = <<file>>
    /\ saved' = NoResult
    /\ IF EndsWith(file.name, S_dotClass)
       THEN LET rawStrings == extractReadableStrings(file.content)
            IN  /\ reference' = rawStrings
                /\ IF rawStrings.kind = "return"
                   THEN /\ leftContent' = rawStrings.text
                        /\ rightContent' =
                             convertReferenceToConfig(rawStrings.text, file.name)
                   ELSE UNCHANGED <<leftContent, rightContent>>
       ELSE /\ reference' = NoResult
            /\ leftContent' = S_NotClass
            /\ rightContent' = S_SelectClass
    /\ UNCHANGED <<file, source>>

\* handleLeftEditorChange(value)
handleLeftEditorChange ==
    \E newVal \in LeftEdits :
       /\ leftContent' = newVal
       /\ IF selectedFile # <<>>
          THEN rightContent' = convertReferenceToConfig(newVal, selectedFile[1].name)
          ELSE UNCHANGED rightContent
       /\ saved' = NoResult
       /\ UNCHANGED <<file, selectedFile, reference, source>>

\* The config editor's onChange: setRightContent(val || ''). The user types
\* one of RightEdits or pastes the text decompileClassLocal resolved with.
rightEditorChange ==
    \E val \in RightEdits(selectedFile, leftContent, reference)
                  \cup (IF source.kind = "return" THEN {source.text} ELSE {}) :
       /\ rightContent' = val
       /\ saved' = NoResult
       /\ UNCHANGED <<file, selectedFile, leftContent, reference, source>>

\* A handleSave whose assembly writes its output into the buffer it read.
handleSave_InPlace ==
    /\ selectedFile # <<>>
    /\ saved' = assembleClassFile(selectedFile[1].content, rightContent)
    /\ file' = IF saved'.kind = "return" /\ selectedFile[1] = file
               THEN [file EXCEPT !.content = saved'.bytes] ELSE file
    /\ UNCHANGED <<selectedFile, leftContent, rightContent, reference, source>>

\* handleSave: the assembly of the selected file with the config text; the
\* catch turns a throw into a console line, and nothing is downloaded.
handleSave ==
    /\ selectedFile # <<>>
    /\ saved' = assembleClassFile(selectedFile[1].content, rightContent)
    /\ UNCHANGED <<file, selectedFile, leftContent, rightContent, reference, source>>

\* decompileClassLocal(classContent, fileName)
decompileClassLocal ==
    /\ source' = extractStringsFromClass(file.content, file.name)
    /\ UNCHANGED <<file, selectedFile, leftContent, rightContent, reference, saved>>

Next ==
    \/ handleNodeSelect
    \/ handleLeftEditorChange
    \/ rightEditorChange
    \/ handleSave
    \/ decompileClassLocal

Spec == Init /\ [][Next]_vars

\* ------------------------------------------------------------------------
\* The class-file format as the specification states it (sections 3 and 4.1)
\* ------------------------------------------------------------------------
\* The payload length of each tag of the per-tag table, Utf8 apart.
TagTable ==
    [t \in {3, 4, 9, 10, 11, 12, 17, 18} |-> 4] @@ [t \in {5, 6} |-> 8]
    @@ [t \in {7, 8, 16, 19, 20} |-> 2] @@ (15 :> 3)

\* The entries of the pool of B, each with the offset at of its tag byte, its
\* size in bytes (tag included) and its pool index. status is "ok" when
\* constant_pool_count - 1 slots of recognized entries lie inside B.
RECURSIVE PoolWalk(_, _, _, _, _)
PoolWalk(B, N, index, at, acc) ==
    IF index >= N
    THEN [status |-> IF index = N THEN "ok" ELSE "slots", entries |-> acc, end |-> at]
    ELSE IF at >= Len(B) THEN [status |-> "truncated", entries |-> acc, end |-> at]
    ELSE LET tag == B[at + 1]
             size == IF tag = 1
                     THEN IF at + 3 > Len(B) THEN Len(B) + 1
                          ELSE 3 + B[at + 2] * 256 + B[at + 3]
                     ELSE IF tag \in DOMAIN TagTable THEN 1 + TagTable[tag] ELSE 0
         IN  IF size = 0 THEN [status |-> "unknown", entries |-> acc, end |-> at]
             ELSE IF at + size > Len(B)
               THEN [status |-> "truncated", entries |-> acc, end |-> at]
             ELSE PoolWalk(B, N, index + (IF tag \in {5, 6} THEN 2 ELSE 1), at + size,
                           Append(acc, [at |-> at, size |-> size, tag |-> tag,
                                        index |-> index]))

Pool(B) ==
    IF Len(B) < 4 THEN [status |-> "short", entries |-> <<>>, end |-> 0]
    ELSE IF SubSeq(B, 1, 4) # <<202, 254, 186, 190>>
      THEN [status |-> "magic", entries |-> <<>>, end |-> 0]
    ELSE IF Len(B) < 10 THEN [status |-> "short", entries |-> <<>>, end |-> 0]
    ELSE PoolWalk(B, B[9] * 256 + B[10], 1, 10, <<>>)

\* A valid class-file buffer: the magic, recognized tags only, the pool
\* inside the buffer.
ValidBuffer(B) == Pool(B).status = "ok"

\* The bytes of entry e of B, and the text of a Utf8 entry.
EntryBytes(B, e) == SubSeq(B, e.at + 1, e.at + e.size)
EntryText(B, e) == Decode(SubSeq(B, e.at + 4, e.at + e.size))

\* The filter of section 4.2.
Rejected(text) ==
    \/ Len(text) < 2
    \/ StartsWith(text, S_Ljava)
    \/ (text[1] = 40 /\ \E i \in 1..Len(text) : text[i] = 41)
    \/ Includes(text, S_ParenV)
    \/ Includes(text, S_Exception)
    \/ StartsWith(text, S_METAINF)
    \/ ~HasLetterOrDigit(text)

Eligible(B, e) == e.tag = 1 /\ ~Rejected(EntryText(B, e))

\* The stableId of the eligible entry j: the eligible entries before it.
StableId(B, entries, j) ==
    Cardinality({k \in 1..(j - 1) : Eligible(B, entries[k])})

\* The ids a walk should assign on a valid buffer.
ExpectedIds(B) ==
    LET es == Pool(B).entries
        js == {j \in 1..Len(es) : Eligible(B, es[j])}
        nth(k) == CHOOSE j \in js : StableId(B, es, j) = k - 1
    IN  [k \in 1..Cardinality(js) |->
           [id |-> k - 1, index |-> es[nth(k)].index, at |-> es[nth(k)].at]]

content == file.content

\* The config text as extraction yields it, no edit made.
Unedited ==
    \/ reference.kind = "return"
         /\ rightContent = convertReferenceToConfig(reference.text, file.name)
    \/ source.kind = "return" /\ rightContent = source.text

\* ------------------------------------------------------------------------
\* C1
\* ------------------------------------------------------------------------
\* C1: round-trip identity. Assembling a valid class file with the unedited
\* config text of its extraction returns a buffer byte-identical to it, for
\* every byte content of its Utf8 entries.
C1_RoundTrip ==
    (saved.kind # "none" /\ ValidBuffer(content) /\ Unedited)
        => (saved.kind = "return" /\ saved.bytes = content)

\* ------------------------------------------------------------------------
\* C2
\* ------------------------------------------------------------------------
\* The ids a walk assigned are 0, 1, 2, ... in pool order.
Sequential(ids) ==
    /\ \A k \in 1..Len(ids) : ids[k].id = k - 1
    /\ \A k \in 1..(Len(ids) - 1) :
         ids[k].index < ids[k + 1].index /\ ids[k].at < ids[k + 1].at

\* C2: id stability across passes. On a buffer that assembly succeeds on,
\* extractReadableStrings, extractStringsFromClass and the re-check of
\* assembleClassFile assign the same ids to the same pool entries, counting
\* from 0 by 1 in pool order.
C2_IdStability ==
    saved.kind = "return" =>
        /\ Sequential(saved.ids)
        /\ reference.kind = "return" /\ reference.ids = saved.ids
        /\ source.kind # "none" => (source.kind = "return" /\ source.ids = saved.ids)
        /\ \A k \in 1..Len(saved.ids) : content[saved.ids[k].at + 1] = 1
        /\ ValidBuffer(content) => saved.ids = ExpectedIds(content)

\* An id went to an entry that stands after a Long, at pool index 3, in all
\* three passes.
C2_Witness ==
    /\ saved.kind = "return" /\ source.kind = "return" /\ reference.kind = "return"
    /\ Len(saved.ids) >= 1
    /\ saved.ids[Len(saved.ids)].index >= 3

\* ------------------------------------------------------------------------
\* C3
\* ------------------------------------------------------------------------
\* Entry j of B is one the edit set E replaces.
Replaced(B, es, j, E) == Eligible(B, es[j]) /\ StableId(B, es, j) \in E

\* From offset pos on, O holds the entries j.. of B in order and then the
\* bytes after the pool of B; an entry that is replaced keeps its tag and may
\* have any length field and payload.
RECURSIVE FrameFrom(_, _, _, _, _)
FrameFrom(B, O, E, pos, j) ==
    LET p == Pool(B)
        es == p.entries
    IN  IF j > Len(es) THEN Slice(O, pos, Len(O)) = Slice(B, p.end, Len(B))
        ELSE IF Replaced(B, es, j, E)
          THEN /\ pos + 3 <= Len(O)
               /\ O[pos + 1] = 1
               /\ \E n \in 3..(Len(O) - pos) : FrameFrom(B, O, E, pos + n, j + 1)
        ELSE /\ Slice(O, pos, pos + es[j].size) = EntryBytes(B, es[j])
             /\ FrameFrom(B, O, E, pos + es[j].size, j + 1)

\* C3: frame of assembly. The output of assembleClassFile on a valid buffer
\* differs from it only in the length field and payload of the eligible Utf8
\* entries whose stableId the edit text names; the first 8 bytes, the pool
\* count, every tag, every other entry and the bytes after the pool are
\* there unchanged and in order.
C3_Frame ==
    (saved.kind # "none" /\ ValidBuffer(content)) =>
        /\ saved.kind = "return"
        /\ Len(saved.bytes) >= 10
        /\ SubSeq(saved.bytes, 1, 10) = SubSeq(content, 1, 10)
        /\ FrameFrom(content, saved.bytes, DOMAIN Replacements(rightContent), 10, 1)

\* One eligible entry was rewritten and another, whose id the edit text does
\* not name, was left as it is.
C3_Witness ==
    /\ saved.kind = "return" /\ ValidBuffer(content)
    /\ Len(saved.writes) >= 1
    /\ Len(saved.ids) > Len(saved.writes)
    /\ saved.bytes # content

\* ------------------------------------------------------------------------
\* C4
\* ------------------------------------------------------------------------
\* C4: length recomputation. The length field of every entry assembly
\* rewrote equals the number of UTF-8 bytes written as its payload, whatever
\* that number (65536 and more included), and the bytes after the pool of a
\* valid buffer follow unchanged.
C4_LengthField ==
    saved.kind = "return" =>
        /\ \A k \in 1..Len(saved.writes) :
             LET w == saved.writes[k]
             IN  /\ getUint16(saved.bytes, w.outAt + 1) = w.count
                 /\ Slice(saved.bytes, w.outAt + 3, w.outAt + 3 + w.count)
                      = Encode(Replacements(rightContent)[w.id])
        /\ ValidBuffer(content) =>
             LET rest == Slice(content, Pool(content).end, Len(content))
             IN  Slice(saved.bytes, Len(saved.bytes) - Len(rest), Len(saved.bytes)) = rest

\* ------------------------------------------------------------------------
\* C5
\* ------------------------------------------------------------------------
WrongMagic(B) == Len(B) >= 4 /\ SubSeq(B, 1, 4) # <<202, 254, 186, 190>>

\* C5: invalid magic. On a buffer whose first 4 bytes are not CAFEBABE each
\* extraction returns its invalid-format marker and no projection, and
\* assembly throws Invalid Magic Header and returns no bytes; no walk has
\* assigned an id.
C5_InvalidMagic ==
    WrongMagic(content) =>
        /\ source.kind # "none" =>
             source.kind = "return" /\ source.text = S_ErrMagic /\ source.ids = <<>>
        /\ reference.kind # "none" =>
             reference.kind = "return" /\ reference.text = S_RefInvalid
                 /\ reference.ids = <<>>
        /\ saved.kind # "none" =>
             saved.kind = "Error" /\ saved.message = S_AsmMagic
                 /\ saved.bytes = <<>> /\ saved.ids = <<>>

\* All three operations have run on a buffer with a wrong magic.
C5_Witness ==
    /\ WrongMagic(content)
    /\ source.kind = "return" /\ reference.kind = "return" /\ saved.kind = "Error"

\* ------------------------------------------------------------------------
\* C6
\* ------------------------------------------------------------------------
\* C6: an unknown tag is fatal in every pass. When the pool walk meets a byte
\* that is no tag at an entry boundary, extractStringsFromClass returns the
\* unknown-tag marker, assembleClassFile throws Unknown Tag, and
\* extractReadableStrings returns no reference text; none assigns an id to an
\* entry after that byte.
C6_UnknownTagFatal ==
    Pool(content).status = "unknown" =>
        LET u == Pool(content).end
            before(ids) == \A k \in 1..Len(ids) : ids[k].at < u
        IN  /\ source.kind # "none" =>
                 source.kind = "return" /\ StartsWith(source.text, S_ErrTagA)
                     /\ before(source.ids)
            /\ saved.kind # "none" =>
                 saved.kind = "Error" /\ StartsWith(saved.message, S_AsmTagA)
                     /\ before(saved.ids)
            /\ reference.kind # "none" =>
                 ~(reference.kind = "return" /\ StartsWith(reference.text, S_RefHdr1))
                     /\ before(reference.ids)

\* ------------------------------------------------------------------------
\* C7
\* ------------------------------------------------------------------------
\* C7: closed error surface. On every buffer each operation completes or
\* fails with InvalidFormat or UnknownTag; no other failure occurs.
C7_ClosedErrors ==
    \A r \in {source, reference, saved} :
        /\ r.kind \in {"none", "return", "Error"}
        /\ r.kind = "Error" =>
             (r.message = S_AsmMagic \/ StartsWith(r.message, S_AsmTagA))

\* ------------------------------------------------------------------------
\* C8
\* ------------------------------------------------------------------------
\* Ljava/lang/String; and Hello World
T_LjavaString == <<76, 106, 97, 118, 97, 47, 108, 97, 110, 103, 47, 83, 116, 114, 105, 110, 103, 59>>
T_Hello == <<72, 101, 108, 108, 111, 32, 87, 111, 114, 108, 100>>

\* The ids of a walk name entry e.
HasId(ids, e) == \E k \in 1..Len(ids) : ids[k].at = e.at

\* C8: filter correctness. On a valid buffer a Utf8 entry gets a stableId,
\* in each of the three walks, exactly if its text passes the filter, and
\* assembly rewrites no other entry; Ljava/lang/String; gets no id and is
\* never rewritten, Hello World gets one and stands in both projections.
C8_Filter ==
    ValidBuffer(content) =>
        LET es == Pool(content).entries IN
        /\ \A r \in {reference, source, saved} :
             r.kind = "return" => r.ids = ExpectedIds(content)
        /\ \A r \in {reference, source, saved} : \A j \in 1..Len(es) :
             /\ r.kind = "return" => (HasId(r.ids, es[j]) <=> Eligible(content, es[j]))
             /\ (es[j].tag = 1 /\ EntryText(content, es[j]) = T_LjavaString) =>
                  /\ ~HasId(r.ids, es[j])
                  /\ \A k \in 1..Len(r.writes) : r.writes[k].at # es[j].at
             /\ (es[j].tag = 1 /\ EntryText(content, es[j]) = T_Hello /\ r.kind = "return")
                  => HasId(r.ids, es[j])
        /\ \A k \in 1..Len(saved.writes) :
             \E j \in 1..Len(es) : es[j].at = saved.writes[k].at /\ Eligible(content, es[j])
        /\ \A j \in 1..Len(es) :
             (es[j].tag = 1 /\ EntryText(content, es[j]) = T_Hello) =>
               LET id == NumToString(StableId(content, es, j)) IN
               /\ reference.kind = "return" =>
                    Includes(reference.text,
                             S_str \o PadStart(id, 5) \o S_Bar \o T_Hello \o S_QuoteNl)
               /\ source.kind = "return" =>
                    Includes(source.text, S_str \o id \o S_Eq \o T_Hello \o S_QuoteNl)

\* Ljava/lang/String; stands before OK; all three walks have run, and the
\* edit rewrote OK, the entry with id 0.
C8_Witness ==
    /\ content = Build(<<Utf8Entry(P_LjavaString), Utf8Entry(P_OK)>>, TailBytes)
    /\ reference.kind = "return" /\ source.kind = "return" /\ saved.kind = "return"
    /\ Len(saved.writes) = 1

\* ------------------------------------------------------------------------
\* C9
\* ------------------------------------------------------------------------
\* C9: the two projections render the same sequence. On a valid buffer the
\* config text converted from the reference text equals the config text of
\* extractStringsFromClass, character for character.
C9_SameProjection ==
    (ValidBuffer(content) /\ reference.kind = "return" /\ source.kind = "return")
        => convertReferenceToConfig(reference.text, file.name) = source.text

\* Both extractions have run on a file whose first string holds a quote, a
\* backslash and a control character, and the config editor shows the
\* converted text.
C9_Witness ==
    /\ content = Build(<<Utf8Entry(P_Quoted), Utf8Entry(P_OK)>>, TailBytes)
    /\ reference.kind = "return" /\ source.kind = "return"
    /\ selectedFile # <<>> /\ rightContent = source.text
    /\ Len(source.ids) = 2

\* ------------------------------------------------------------------------
\* C10
\* ------------------------------------------------------------------------
Spaces == {9, 10, 11, 12, 13, 32, 160, 5760, 8232, 8233, 8239, 8287, 12288, 65279}
              \cup 8192..8202
Digits == 48..57

LineChars == (0..65535) \ {10}

\* The first index from i on whose character is not in S.
RECURSIVE PastRun(_, _, _)
PastRun(line, i, S) ==
    IF i <= Len(line) /\ line[i] \in S THEN PastRun(line, i + 1, S) ELSE i

\* The index of the first quote from i on that no backslash escapes, 0 when
\* there is none. With strict, a backslash before a carriage return, U+2028
\* or U+2029 ends the search.
RECURSIVE ClosingQuote(_, _, _)
ClosingQuote(line, i, strict) ==
    IF i > Len(line) THEN 0
    ELSE IF line[i] = 34 THEN i
    ELSE IF line[i] = 92
      THEN IF i + 1 > Len(line) \/ (strict /\ line[i + 1] \in {13, 8232, 8233})
           THEN 0 ELSE ClosingQuote(line, i + 2, strict)
    ELSE ClosingQuote(line, i + 1, strict)

\* The config line for 'str_' ws digits ws '|' ws '"value"' found at p, <<>>
\* when the pattern is not there.
LineAt(line, p, strict) ==
    LET d0 == PastRun(line, p + 4, Spaces)
        d1 == PastRun(line, d0, Digits)
        b == PastRun(line, d1, Spaces)
        q == PastRun(line, b + 1, Spaces)
    IN  IF /\ p + 3 <= Len(line) /\ SubSeq(line, p, p + 3) = S_str
           /\ d1 > d0
           /\ b <= Len(line) /\ line[b] = 124
           /\ q <= Len(line) /\ line[q] = 34
           /\ ClosingQuote(line, q + 1, strict) > 0
        THEN S_str \o SubSeq(line, d0, d1 - 1) \o S_Eq
                 \o SubSeq(line, q + 1, ClosingQuote(line, q + 1, strict) - 1) \o S_QuoteNl
        ELSE <<>>

\* What a line yields: the config line of the leftmost place the pattern is
\* found at, nothing when it is found nowhere.
RECURSIVE LineFrom(_, _, _)
LineFrom(line, p, strict) ==
    IF p > Len(line) THEN <<>>
    ELSE IF LineAt(line, p, strict) # <<>> THEN LineAt(line, p, strict)
    ELSE LineFrom(line, p + 1, strict)

\* The fresh header, then what each line of the text yields, in order.
RECURSIVE LinesFrom(_, _, _)
LinesFrom(text, i, strict) ==
    IF i > Len(text) + 1 THEN <<>>
    ELSE LET j == PastRun(text, i, LineChars)
         IN  LineFrom(SubSeq(text, i, j - 1), 1, strict) \o LinesFrom(text, j + 1, strict)

Converted(text, fileName, strict) ==
    S_HdrFile \o fileName \o <<10>> \o S_HdrEdit \o S_HdrFormat \o LinesFrom(text, 1, strict)

RECURSIVE EscapesWellFormed(_, _)
EscapesWellFormed(t, i) ==
    IF i > Len(t) THEN TRUE
    ELSE IF t[i] # 92 THEN EscapesWellFormed(t, i + 1)
    ELSE IF i = Len(t) THEN FALSE
    ELSE IF t[i + 1] \in {34, 92, 47, 98, 102, 110, 114, 116}
      THEN EscapesWellFormed(t, i + 2)
    ELSE IF t[i + 1] = 117 /\ i + 5 <= Len(t)
              /\ \A k \in 2..5 : t[i + k] \in (48..57) \cup (65..70) \cup (97..102)
      THEN EscapesWellFormed(t, i + 6)
    ELSE FALSE

HexDigit(c) == IF c <= 57 THEN c - 48 ELSE IF c <= 70 THEN c - 55 ELSE c - 87

\* t from i on with every escape replaced by the character it denotes.
RECURSIVE EscapesDecoded(_, _)
EscapesDecoded(t, i) ==
    IF i > Len(t) THEN <<>>
    ELSE IF t[i] # 92 THEN <<t[i]>> \o EscapesDecoded(t, i + 1)
    ELSE IF t[i + 1] = 117
      THEN <<HexDigit(t[i + 2]) * 4096 + HexDigit(t[i + 3]) * 256
               + HexDigit(t[i + 4]) * 16 + HexDigit(t[i + 5])>>
           \o EscapesDecoded(t, i + 6)
    ELSE << CASE t[i + 1] = 98 -> 8 [] t[i + 1] = 102 -> 12 [] t[i + 1] = 110 -> 10
              [] t[i + 1] = 114 -> 13 [] t[i + 1] = 116 -> 9 [] OTHER -> t[i + 1] >>
         \o EscapesDecoded(t, i + 2)

\* The value with its escapes decoded, or the value as it is when one of its
\* escapes is malformed.
Unescaped(t) ==
    IF \A i \in 1..Len(t) : t[i] # 92 THEN t
    ELSE IF EscapesWellFormed(t, 1) THEN EscapesDecoded(t, 1)
    ELSE t

\* C11: unescape is exception-free and fails closed. For the value of every
\* edit line that assembly parsed, fromJavaUnicode returns the value with all
\* its escapes decoded, or the value unmodified if one of its escapes is
\* malformed; on a valid buffer assembly returns whatever the edit lines hold.
C11_Unescape ==
    saved.kind # "none" =>
        /\ \A k \in 1..Len(Split(rightContent)) :
             LET m == MatchConfig(Split(rightContent)[k])
             IN  m.ok => fromJavaUnicode(m.value) = Unescaped(m.value)
        /\ ValidBuffer(content) => saved.kind = "return"

C13_Stepping ==
    ValidBuffer(content) =>
        LET p == Pool(content)
            N == getUint16(content, 8)
        IN  /\ \A r \in {reference, source, saved} :
                 r.kind = "return" =>
                   /\ r.stop = <<[index |-> N, offset |-> p.end]>>
                   /\ \A k \in 1..Len(r.ids) :
                        \E j \in 1..Len(p.entries) :
                          /\ p.entries[j].tag = 1
                          /\ p.entries[j].at = r.ids[k].at
                          /\ p.entries[j].index = r.ids[k].index
            /\ saved.kind = "return" =>
                 /\ Len(saved.bytes) >= Len(content) - p.end
                 /\ SubSeq(saved.bytes, Len(saved.bytes) - (Len(content) - p.end) + 1,
                           Len(saved.bytes))
                      = SubSeq(content, p.end + 1, Len(content))

\* All three walks ran over a Long, which takes 9 bytes and 2 slots, and
\* read the Utf8 entry after it at offset 19 as pool index 3.
C13_Witness ==
    /\ content = Build(<<FixedEntry(CONSTANT_Long), Utf8Entry(P_OK)>>, TailBytes)
    /\ \A r \in {reference, source, saved} :
         /\ r.kind = "return"
         /\ r.ids = <<[id |-> 0, index |-> 3, at |-> 19]>>
         /\ r.stop = <<[index |-> 4, offset |-> 24]>>

\* ------------------------------------------------------------------------
\* C14
\* ------------------------------------------------------------------------
\* The number of bytes of the UTF-8 encoding of t: 1 for a unit below 0x80, 2
\* below 0x800, 4 for a surrogate pair, 3 for any other unit.
Utf8Length(t) ==
    LET high(u) == u >= 55296 /\ u <= 56319
        low(u) == u >= 56320 /\ u <= 57343
        paired(i) == \/ high(t[i]) /\ i < Len(t) /\ low(t[i + 1])
                     \/ low(t[i]) /\ i > 1 /\ high(t[i - 1])
        n1 == Cardinality({i \in 1..Len(t) : t[i] < 128})
        n2 == Cardinality({i \in 1..Len(t) : (t[i] >= 128 /\ t[i] < 2048) \/ paired(i)})
    IN  n1 + 2 * n2 + 3 * (Len(t) - n1 - n2)

\* By how much the edit set E lengthens entry j of B.
Growth(B, es, j, E) ==
    IF Replaced(B, es, j, DOMAIN E)
    THEN Utf8Length(E[StableId(B, es, j)]) - (es[j].size - 3)
    ELSE 0

\* The growth of the entries before entry j.
RECURSIVE Shift(_, _, _, _)
Shift(B, es, j, E) ==
    IF j <= 1 THEN 0 ELSE Shift(B, es, j - 1, E) + Growth(B, es, j - 1, E)

\* C14: output size of an edit. The output of assembleClassFile on a valid
\* buffer is as long as the buffer plus, for each replaced entry, the UTF-8
\* length of the replacement minus the original payload length; an entry
\* that is not replaced keeps its bytes and stands later by the growth of
\* the entries before it. The file with OK and one Integer yields the one
\* line str_0 = "OK"; with OK edited to Yes the output is 1 byte longer and
\* the Integer entry stands unchanged 1 byte later.
C14_OutputSize ==
    /\ (saved.kind = "return" /\ ValidBuffer(content)) =>
         LET es == Pool(content).entries
             E == Replacements(rightContent)
         IN  /\ Len(saved.bytes) = Len(content) + Shift(content, es, Len(es) + 1, E)
             /\ \A j \in 1..Len(es) :
                  ~Replaced(content, es, j, DOMAIN E) =>
                    SubSeq(saved.bytes, es[j].at + Shift(content, es, j, E) + 1,
                           es[j].at + Shift(content, es, j, E) + es[j].size)
                      = EntryBytes(content, es[j])
    /\ content = ScenarioContent =>
         /\ source.kind # "none" =>
              source.text = ConfigHeader(file.name)
                  \o <<115, 116, 114, 95, 48, 32, 61, 32, 34, 79, 75, 34, 10>>
         /\ (saved.kind # "none" /\ rightContent = ShortEdit) =>
              /\ Len(saved.bytes) = Len(content) + 1
              /\ SubSeq(saved.bytes, 17, 21) = SubSeq(content, 16, 20)

\* OK of the file with OK and one Integer was edited to Yes and saved.
C14_Witness ==
    /\ content = ScenarioContent /\ rightContent = ShortEdit
    /\ saved.kind = "return" /\ Len(saved.writes) = 1 /\ Len(saved.bytes) = 21
    /\ source.kind = "return"

\* ------------------------------------------------------------------------
\* C15
\* ------------------------------------------------------------------------
\* The ids and values that the lines of a view list, in order; M is the
\* line pattern of the view.
Listing(text, M(_)) ==
    LET ms == [k \in 1..Len(Split(text)) |-> M(Split(text)[k])]
        hits == SelectSeq(ms, LAMBDA m : m.ok)
    IN  [k \in 1..Len(hits) |-> <<hits[k].id, hits[k].value>>]

\* C15: view synchronization. While a class file is selected whose
\* extraction returned, the reference view and the config view list the same
\* ids with the same values, whatever edits were made to either, and a save
\* assembles the config text as the most recent edit left it.
C15_ViewsInSync ==
    (selectedFile # <<>> /\ reference.kind = "return") =>
        /\ Listing(leftContent, MatchReference) = Listing(rightContent, MatchConfig)
        /\ saved.kind # "none" =>
             saved = assembleClassFile(selectedFile[1].content, rightContent)

\* ------------------------------------------------------------------------
\* C16
\* ------------------------------------------------------------------------
\* The texts that the strings of B carry once the edit set E is applied: the
\* replacement for an id of E, the original text for any other id.
EditedTexts(B, E) ==
    LET es == Pool(B).entries
        js == {j \in 1..Len(es) : Eligible(B, es[j])}
        nth(k) == CHOOSE j \in js : StableId(B, es, j) = k - 1
    IN  [k \in 1..Cardinality(js) |->
           IF (k - 1) \in DOMAIN E THEN E[k - 1] ELSE EntryText(B, es[nth(k)])]

\* The config text that lists the texts ts as ids 0, 1, ...
ConfigOf(ts, fileName) ==
    ConfigHeader(fileName)
        \o Join([k \in 1..Len(ts) |->
                   S_str \o NumToString(k - 1) \o S_Eq \o toJavaUnicode(ts[k]) \o S_QuoteNl],
                1, Len(ts))

\* C16: edits land on the addressed string and ids survive an edit. When
\* every replacement of the edit set passes the filter, extracting from the
\* output of assembleClassFile on a valid buffer yields as many strings as
\* the buffer has, id k with its replacement if the edit set names k and
\* with its original text otherwise.
C16_EditsLand ==
    (saved.kind = "return" /\ ValidBuffer(content)
       /\ \A k \in DOMAIN Replacements(rightContent) :
            ~Rejected(Replacements(rightContent)[k]))
    => LET again == extractStringsFromClass(saved.bytes, file.name)
           ts == EditedTexts(content, Replacements(rightContent))
       IN  /\ again.kind = "return"
           /\ Len(again.ids) = Len(ts)
           /\ again.text = ConfigOf(ts, file.name)

\* ------------------------------------------------------------------------
\* C17
\* ------------------------------------------------------------------------
\* The decoded texts of the Utf8 entries that a walk of B reads.
DecodedStrings(B) ==
    {EntryText(B, Pool(B).entries[j]) :
        j \in {k \in 1..Len(Pool(B).entries) : Pool(B).entries[k].tag = 1}}

\* C17: escape/unescape round trip. For every string s decoded from the
\* buffer that an extraction has walked, fromJavaUnicode(toJavaUnicode(s)) is
\* s, toJavaUnicode(s) holds no unescaped quote and no character below 0x20,
\* and a reference line and a config line with toJavaUnicode(s) as value are
\* matched with exactly that value; the unedited config text parses back to
\* the decoded strings.
C17_EscapeRoundTrip ==
    /\ (source.kind # "none" \/ reference.kind # "none") =>
         \A s \in DecodedStrings(content) :
           LET esc == toJavaUnicode(s) IN
           /\ fromJavaUnicode(esc) = s
           /\ \A i \in 1..Len(esc) : esc[i] >= 32
           /\ ClosingQuote(esc \o <<34>>, 1, FALSE) = Len(esc) + 1
           /\ MatchConfig(S_str \o <<55>> \o S_Eq \o esc \o <<34>>)
                = [ok |-> TRUE, id |-> <<55>>, value |-> esc]
           /\ MatchReference(S_str \o <<32, 32, 32, 32, 55>> \o S_Bar \o esc \o <<34>>)
                = [ok |-> TRUE, id |-> <<55>>, value |-> esc]
    /\ (source.kind = "return" /\ ValidBuffer(content)) =>
         LET ts == EditedTexts(content, <<>>)
         IN  Replacements(source.text) = [k \in 0..(Len(ts) - 1) |-> ts[k + 1]]

\* The string a"\<TAB> was extracted, its escaped line was put into the
\* config editor unedited, and the save wrote the same bytes back.
C17_Witness ==
    /\ content = Build(<<Utf8Entry(P_Quoted), Utf8Entry(P_OK)>>, TailBytes)
    /\ source.kind = "return" /\ rightContent = source.text
    /\ saved.kind = "return" /\ saved.bytes = content
    /\ Len(saved.writes) = 2

====
